---- MODULE Spec2Model ----
(***************************************************************************)
(* Model of src/app.py: the style-guide sectionizer                        *)
(* (StyleGuideProcessor), the response cleaner (ContentFormatter) and the  *)
(* analysis / generation service (TextAnalyzer).                           *)
(*                                                                         *)
(* A Python str is a sequence of one-character strings.  A Python dict is  *)
(* a sequence of [k, v] entries with pairwise distinct keys, in insertion  *)
(* order.                                                                  *)
(***************************************************************************)
EXTENDS Integers, Sequences, FiniteSets, TLC

VARIABLES
    text,          \* process_style_guide: the argument
    sections,      \* process_style_guide: the returned dict
    pc,            \* position of the pure-function runs
    x,             \* clean_text: the argument
    once,          \* clean_text(x)
    twice,         \* clean_text(clean_text(x))
    style_guide,   \* TextAnalyzer.style_guide
    op,            \* the last session call
    arg,           \* its text / prompt argument, or the extracted document text
    prompt,        \* what the call embedded in the prompt it sent
    outcome,       \* what the remote call (or the PDF reader) did
    result,        \* what the call returned
    raised,        \* whether the call raised to its caller
    tier,          \* which return statement of analyze_text produced result
    prev_guide,    \* style_guide before the last successful load
    loads          \* number of successful loads so far, counted up to 2

vars == <<text, sections, pc, x, once, twice, style_guide, op, arg, prompt,
          outcome, result, raised, tier, prev_guide, loads>>

sectVars == <<text, sections>>
cleanVars == <<x, once, twice>>
sessVars == <<style_guide, op, arg, prompt, outcome, result, raised, tier,
              prev_guide, loads>>

-----------------------------------------------------------------------------
(* Characters and the str methods the program uses.                        *)

NL == "\n"
Upper == {"A","B","C","D","E","F","G","H","I","J","K","L","M",
          "N","O","P","Q","R","S","T","U","V","W","X","Y","Z"}
Lower == {"a","b","c","d","e","f","g","h","i","j","k","l","m",
          "n","o","p","q","r","s","t","u","v","w","x","y","z"}
Whitespace == {" ", "\t", "\n", "\r"}
Quotes == {"\"", "'"}

DropFirst(s, n) == SubSeq(s, n + 1, Len(s))
Take(s, n) == SubSeq(s, 1, IF n < Len(s) THEN n ELSE Len(s))

RECURSIVE Flatten(_)
Flatten(ss) == IF ss = <<>> THEN <<>> ELSE Head(ss) \o Flatten(Tail(ss))

Min(S) == CHOOSE m \in S : \A n \in S : m <= n
Max(S) == CHOOSE m \in S : \A n \in S : m >= n

\* position of the first occurrence of character c in s at or after i, 0 if none
Find(s, c, i) ==
    LET hits == {j \in i..Len(s) : s[j] = c}
    IN  IF hits = {} THEN 0 ELSE Min(hits)

\* position of the last occurrence of character c in s at or before i, 0 if none
FindLast(s, c, i) ==
    LET hits == {j \in 1..i : s[j] = c}
    IN  IF hits = {} THEN 0 ELSE Max(hits)

StartsWithAt(s, i, p) ==
    /\ i + Len(p) - 1 <= Len(s)
    /\ SubSeq(s, i, i + Len(p) - 1) = p

IsSubstring(p, s) == \E i \in 1..(Len(s) + 1) : StartsWithAt(s, i, p)

\* s.split(c)
RECURSIVE split(_, _)
split(s, c) ==
    LET i == Find(s, c, 1)
    IN  IF i = 0 THEN <<s>>
        ELSE <<SubSeq(s, 1, i - 1)>> \o split(DropFirst(s, i), c)

\* c.join(parts)
RECURSIVE join(_, _)
join(parts, c) ==
    IF parts = <<>> THEN <<>>
    ELSE IF Len(parts) = 1 THEN parts[1]
    ELSE parts[1] \o <<c>> \o join(Tail(parts), c)

\* s.lstrip(chars), s.rstrip(chars), s.strip(chars)
RECURSIVE lstrip(_, _)
lstrip(s, chars) ==
    IF s # <<>> /\ s[1] \in chars THEN lstrip(Tail(s), chars) ELSE s

RECURSIVE rstrip(_, _)
rstrip(s, chars) ==
    IF s # <<>> /\ s[Len(s)] \in chars
    THEN rstrip(SubSeq(s, 1, Len(s) - 1), chars) ELSE s

strip(s, chars) == rstrip(lstrip(s, chars), chars)

\* s.isupper(): at least one cased character and no lowercase one
isupper(s) ==
    /\ \E i \in 1..Len(s) : s[i] \in Upper
    /\ \A i \in 1..Len(s) : s[i] \notin Lower

\* s.endswith(c) for a one-character c
endswith(s, c) == s # <<>> /\ s[Len(s)] = c

\* s.replace(old, new): the occurrences of old, leftmost first, not overlapping
RECURSIVE replace(_, _, _)
replace(s, old, new) ==
    LET hits == {i \in 1..Len(s) : StartsWithAt(s, i, old)}
    IN  IF hits = {} THEN s
        ELSE LET i == Min(hits)
             IN  SubSeq(s, 1, i - 1) \o new
                 \o replace(DropFirst(s, i + Len(old) - 1), old, new)

-----------------------------------------------------------------------------
(* dict                                                                    *)

Keys(d) == {d[i].k : i \in 1..Len(d)}
Get(d, key) == d[CHOOSE i \in 1..Len(d) : d[i].k = key].v

\* d[key] = val: an existing key keeps its position
DictSet(d, key, val) ==
    IF key \in Keys(d)
    THEN [i \in 1..Len(d) |-> IF d[i].k = key THEN [k |-> key, v |-> val] ELSE d[i]]
    ELSE Append(d, [k |-> key, v |-> val])

DictDel(d, key) == SelectSeq(d, LAMBDA e : e.k # key)

-----------------------------------------------------------------------------
(* StyleGuideProcessor.process_style_guide                                 *)

General == <<"G","e","n","e","r","a","l">>

is_header(line) == isupper(line) \/ endswith(strip(line, Whitespace), ":")

section_name(line) == rstrip(strip(line, Whitespace), {":"})

\* sections[current_section] = [] after a header that replaces an empty
\* current section instead of adding to the mapping
header_branch_rename(secs, current, line) ==
    LET d == IF Get(secs, current) = <<>> THEN DictDel(secs, current) ELSE secs
    IN  DictSet(d, section_name(line), <<>>)

\* sections[current_section] = [] with the header line kept in the body
header_branch_keep(secs, current, line) ==
    DictSet(secs, section_name(line), <<line>>)

\* the header branch of the loop: a new, empty body under the header's name
header_branch(secs, current, line) ==
    DictSet(secs, section_name(line), <<>>)

\* the else branch with the line stripped before it is appended
body_branch_strip(secs, current, line) ==
    DictSet(secs, current, Append(Get(secs, current), strip(line, Whitespace)))

\* the else branch of the loop: the line is appended to the current body
body_branch(secs, current, line) ==
    DictSet(secs, current, Append(Get(secs, current), line))

\* the loop over text.split('\n'): the accumulated line lists
RECURSIVE scan(_, _, _)
scan(lines, current, secs) ==
    IF lines = <<>> THEN secs
    ELSE LET line == Head(lines)
         IN  IF is_header(line)
             THEN scan(Tail(lines), section_name(line), header_branch(secs, current, line))
             ELSE scan(Tail(lines), current, body_branch(secs, current, line))

accumulated(t) == scan(split(t, NL), General, <<[k |-> General, v |-> <<>>]>>)

process_style_guide(t) ==
    LET acc == accumulated(t)
    IN  [i \in 1..Len(acc) |-> [k |-> acc[i].k, v |-> join(acc[i].v, NL)]]

-----------------------------------------------------------------------------
(* ContentFormatter.clean_text                                             *)

TextBlockOpen == <<"[","T","e","x","t","B","l","o","c","k","(","t","e","x","t","=","\"">>
TextBlockClose == <<"\"",","," ","t","y","p","e","=","\"","t","e","x","t","\"",")","]">>
EscapedNL == <<"\\","n">>
EscapedCR == <<"\\","r">>

\* the body of clean_text for a str argument
clean_str(s) ==
    LET t1 == replace(s, TextBlockOpen, <<>>)
        t2 == replace(t1, TextBlockClose, <<>>)
        t3 == replace(t2, EscapedNL, <<NL>>)
        t4 == replace(t3, EscapedCR, <<"\r">>)
        t5 == strip(t4, Quotes)
    IN  strip(t5, Whitespace)

\* A payload is [kind, repr]: kind is "str", "list", "dict" or "other" (a
\* value with no str methods, such as None) and repr is str(payload).
\* clean_text raises AttributeError on kind "other".
clean_text_raises(payload) == payload.kind \notin {"str", "list", "dict"}
clean_text(payload) == clean_str(payload.repr)

-----------------------------------------------------------------------------
(* Runs of the two pure functions on bounded inputs.                       *)

MaxLines == 3
MaxLen == 4

\* "General:", "A:", "A", " b: ", "a", "", " a", "1"
LinePool ==
    { <<"G","e","n","e","r","a","l",":">>, <<"A",":">>, <<"A">>,
      <<" ","b",":"," ">>, <<"a">>, <<>>, <<" ","a">>, <<"1">> }

Texts ==
    UNION { { join(ls, NL) : ls \in [1..n -> LinePool] } : n \in 1..MaxLines }

CleanAlphabet == {" ", "\"", "'", "a", "\\", "n"}

\* '[TextBlock(text="a", type="text")]' is added to the bounded strings
CleanInputs ==
    UNION { [1..n -> CleanAlphabet] : n \in 0..MaxLen }
    \cup { TextBlockOpen \o <<"a">> \o TextBlockClose }

NoSession ==
    /\ style_guide = <<>>
    /\ op = "none"
    /\ arg = <<>>
    /\ prompt = "none"
    /\ outcome = "none"
    /\ result = "none"
    /\ raised = FALSE
    /\ tier = "none"
    /\ prev_guide = <<>>
    /\ loads = 0

InitSectionize ==
    /\ text \in Texts
    /\ sections = <<>>
    /\ pc = "start"
    /\ x = <<>> /\ once = <<>> /\ twice = <<>>
    /\ NoSession

Sectionize ==
    /\ pc = "start"
    /\ sections' = process_style_guide(text)
    /\ pc' = "done"
    /\ UNCHANGED <<text, cleanVars, sessVars>>

NextSectionize == Sectionize

SpecSectionize == InitSectionize /\ [][NextSectionize]_vars

InitClean ==
    /\ x \in CleanInputs
    /\ once = <<>> /\ twice = <<>>
    /\ pc = "start"
    /\ text = <<>> /\ sections = <<>>
    /\ NoSession

CleanOnce ==
    /\ pc = "start"
    /\ once' = clean_str(x)
    /\ pc' = "once"
    /\ UNCHANGED <<x, twice, sectVars, sessVars>>

CleanTwice ==
    /\ pc = "once"
    /\ twice' = clean_str(once)
    /\ pc' = "twice"
    /\ UNCHANGED <<x, once, sectVars, sessVars>>

NextClean == CleanOnce \/ CleanTwice

SpecClean == InitClean /\ [][NextClean]_vars

-----------------------------------------------------------------------------
(* Properties of process_style_guide                                       *)

input_lines == split(text, NL)
non_header_lines == SelectSeq(input_lines, LAMBDA l : ~ is_header(l))
header_names == [i \in 1..Len(SelectSeq(input_lines, is_header)) |->
                    section_name(SelectSeq(input_lines, is_header)[i])]

\* the lines of the returned bodies, in the order of the mapping; a section
\* that received no line contributes none
body_lines ==
    LET acc == accumulated(text)
    IN  Flatten([i \in 1..Len(sections) |->
                    IF acc[i].v = <<>> THEN <<>> ELSE split(sections[i].v, NL)])

\* no header repeats an earlier header's name or is named "General"
distinct_names ==
    /\ \A i \in 1..Len(header_names) : header_names[i] # General
    /\ \A i, j \in 1..Len(header_names) : i # j => header_names[i] # header_names[j]

\* C1 as stated: for every input text the section bodies, concatenated in
\* scan order, are exactly the non-header lines of the input in their order.
C1_AllLinesKept == pc = "done" => body_lines = non_header_lines

\* C1 amended: when no header line repeats the name of an earlier header line
\* or is named "General", the section bodies, concatenated in scan order, are
\* exactly the non-header lines of the input in their original order.
C1_LinesKeptDistinctNames ==
    (pc = "done" /\ distinct_names) => body_lines = non_header_lines

C1_Witness ==
    /\ pc = "done"
    /\ distinct_names
    /\ Len(header_names) >= 2
    /\ Len(non_header_lines) >= 1
    /\ \E i \in 2..Len(sections) : sections[i].v # <<>>
    /\ body_lines = non_header_lines

\* C8: a text without any header line is returned as the single section
\* "General" whose body is the full input text.
C8_NoHeaderIsGeneral ==
    (pc = "done" /\ \A i \in 1..Len(input_lines) : ~ is_header(input_lines[i]))
        => sections = <<[k |-> General, v |-> text]>>

C8_Witness ==
    /\ pc = "done"
    /\ Len(input_lines) >= 2
    /\ \A i \in 1..Len(input_lines) : ~ is_header(input_lines[i])
    /\ \E i \in 1..Len(input_lines) : input_lines[i] # strip(input_lines[i], Whitespace)
    /\ sections = <<[k |-> General, v |-> text]>>

\* C9: the returned mapping always has the key "General".
C9_HasGeneral == pc = "done" => General \in Keys(sections)

C9_Witness ==
    /\ pc = "done"
    /\ is_header(input_lines[1])
    /\ \E i \in 1..Len(input_lines) : is_header(input_lines[i]) /\ section_name(input_lines[i]) = General
    /\ General \in Keys(sections)

-----------------------------------------------------------------------------
(* Properties of clean_text                                                *)

free_of_markers(s) ==
    /\ ~ IsSubstring(TextBlockOpen, s)
    /\ ~ IsSubstring(TextBlockClose, s)
    /\ ~ IsSubstring(EscapedNL, s)
    /\ ~ IsSubstring(EscapedCR, s)

\* C3: for x free of the wrapper markers and of the escape sequences,
\* clean_text(clean_text(x)) = clean_text(x).
C3_Idempotent == (pc = "twice" /\ free_of_markers(x)) => twice = once

-----------------------------------------------------------------------------
(* json.loads on a str.  A parsed value is [t, v]: t is "obj" (v a dict     *)
(* whose values are parsed values), "arr" (v a sequence of parsed values),  *)
(* "str" (v the characters), "num" (v the digits) or "lit" (v the word).    *)
(* Not modelled: backslash escapes inside strings, signs, fractions and     *)
(* exponents of numbers, NaN and Infinity; the response texts below use     *)
(* none of them.                                                            *)

Digits == {"0","1","2","3","4","5","6","7","8","9"}
ControlChars == {"\n", "\t", "\r"}

Str(s) == [t |-> "str", v |-> s]
Arr(a) == [t |-> "arr", v |-> a]
Obj(d) == [t |-> "obj", v |-> d]

Fail == [ok |-> FALSE, val |-> [t |-> "none", v |-> <<>>], pos |-> 0]
Ok(val, pos) == [ok |-> TRUE, val |-> val, pos |-> pos]

RECURSIVE skip_ws(_, _)
skip_ws(s, i) ==
    IF i <= Len(s) /\ s[i] \in Whitespace THEN skip_ws(s, i + 1) ELSE i

RECURSIVE digits_end(_, _)
digits_end(s, i) ==
    IF i <= Len(s) /\ s[i] \in Digits THEN digits_end(s, i + 1) ELSE i

\* a string starting with the quote at i
parse_string(s, i) ==
    LET j == Find(s, "\"", i + 1)
    IN  IF j = 0 THEN Fail
        ELSE IF \E n \in (i + 1)..(j - 1) : s[n] \in ControlChars \cup {"\\"} THEN Fail
        ELSE Ok(Str(SubSeq(s, i + 1, j - 1)), j + 1)

\* an integer starting with the digit at i
parse_number(s, i) ==
    LET e == IF s[i] = "0" THEN i + 1 ELSE digits_end(s, i)
    IN  Ok([t |-> "num", v |-> SubSeq(s, i, e - 1)], e)

parse_literal(s, i, word) ==
    IF StartsWithAt(s, i, word) THEN Ok([t |-> "lit", v |-> word], i + Len(word)) ELSE Fail

RECURSIVE parse_value(_, _)
RECURSIVE parse_members(_, _, _)
RECURSIVE parse_elements(_, _, _)

\* the pairs of an object from the key's opening quote, expected at i
parse_members(s, i, acc) ==
    IF i > Len(s) \/ s[i] # "\"" THEN Fail
    ELSE LET key == parse_string(s, i)
         IN  IF ~ key.ok THEN Fail
             ELSE LET c == skip_ws(s, key.pos)
                  IN  IF c > Len(s) \/ s[c] # ":" THEN Fail
                      ELSE LET val == parse_value(s, skip_ws(s, c + 1))
                           IN  IF ~ val.ok THEN Fail
                               ELSE LET e == skip_ws(s, val.pos)
                                        d == DictSet(acc, key.val.v, val.val)
                                    IN  IF e > Len(s) THEN Fail
                                        ELSE IF s[e] = "}" THEN Ok(Obj(d), e + 1)
                                        ELSE IF s[e] = "," THEN parse_members(s, skip_ws(s, e + 1), d)
                                        ELSE Fail

\* the elements of an array from the value expected at i
parse_elements(s, i, acc) ==
    LET val == parse_value(s, i)
    IN  IF ~ val.ok THEN Fail
        ELSE LET e == skip_ws(s, val.pos)
                 a == Append(acc, val.val)
             IN  IF e > Len(s) THEN Fail
                 ELSE IF s[e] = "]" THEN Ok(Arr(a), e + 1)
                 ELSE IF s[e] = "," THEN parse_elements(s, skip_ws(s, e + 1), a)
                 ELSE Fail

parse_value(s, i) ==
    IF i > Len(s) THEN Fail
    ELSE IF s[i] = "\"" THEN parse_string(s, i)
    ELSE IF s[i] = "{" THEN
        LET j == skip_ws(s, i + 1)
        IN  IF j <= Len(s) /\ s[j] = "}" THEN Ok(Obj(<<>>), j + 1)
            ELSE parse_members(s, j, <<>>)
    ELSE IF s[i] = "[" THEN
        LET j == skip_ws(s, i + 1)
        IN  IF j <= Len(s) /\ s[j] = "]" THEN Ok(Arr(<<>>), j + 1)
            ELSE parse_elements(s, j, <<>>)
    ELSE IF s[i] \in Digits THEN parse_number(s, i)
    ELSE IF s[i] = "n" THEN parse_literal(s, i, <<"n","u","l","l">>)
    ELSE IF s[i] = "t" THEN parse_literal(s, i, <<"t","r","u","e">>)
    ELSE IF s[i] = "f" THEN parse_literal(s, i, <<"f","a","l","s","e">>)
    ELSE Fail

\* json.loads(s): ok is FALSE where it raises JSONDecodeError
json_loads(s) ==
    LET r == parse_value(s, skip_ws(s, 1))
    IN  IF r.ok /\ skip_ws(s, r.pos) = Len(s) + 1 THEN r ELSE Fail

\* a search that stops at the first closing brace after the first opening one
json_match_lazy(s) ==
    LET a == Find(s, "{", 1)
        b == IF a = 0 THEN 0 ELSE Find(s, "}", a + 1)
    IN  IF a > 0 /\ b > a
        THEN [found |-> TRUE, group |-> SubSeq(s, a, b)]
        ELSE [found |-> FALSE, group |-> <<>>]

\* re.search(r'\{[\s\S]*\}', s): from the first '{' to the last '}' after it
json_match(s) ==
    LET a == Find(s, "{", 1)
        b == FindLast(s, "}", Len(s))
    IN  IF a > 0 /\ b > a
        THEN [found |-> TRUE, group |-> SubSeq(s, a, b)]
        ELSE [found |-> FALSE, group |-> <<>>]

-----------------------------------------------------------------------------
(* TextAnalyzer                                                            *)

OverallAssessment == <<"o","v","e","r","a","l","l","_","a","s","s","e","s","s","m","e","n","t">>
StyleEvaluation == <<"s","t","y","l","e","_","e","v","a","l","u","a","t","i","o","n">>
Suggestions == <<"s","u","g","g","e","s","t","i","o","n","s">>

FormattingIssues == \* "Analysis completed with formatting issues."
    <<"A","n","a","l","y","s","i","s"," ","c","o","m","p","l","e","t","e","d"," ","w","i","t","h"," ","f","o","r","m","a","t","t","i","n","g"," ","i","s","s","u","e","s",".">>
ContentAnalyzed == \* "Content analyzed: "
    <<"C","o","n","t","e","n","t"," ","a","n","a","l","y","z","e","d",":"," ">>
Ellipsis == <<".",".",".">>
FallbackSuggestions ==
    << Str(<<"C","o","n","s","i","d","e","r"," ","r","e","v","i","e","w","i","n","g"," ","t","h","e"," ","c","o","n","t","e","n","t"," ","f","o","r"," ","c","l","a","r","i","t","y">>),
       Str(<<"E","n","s","u","r","e"," ","a","l","l"," ","k","e","y"," ","p","o","i","n","t","s"," ","a","r","e"," ","c","l","e","a","r","l","y"," ","c","o","m","m","u","n","i","c","a","t","e","d">>),
       Str(<<"R","e","v","i","e","w"," ","f","o","r","m","a","t","t","i","n","g"," ","a","n","d"," ","s","t","r","u","c","t","u","r","e">>) >>

AnalysisError == \* "Analysis error: "
    <<"A","n","a","l","y","s","i","s"," ","e","r","r","o","r",":"," ">>
UnableToComplete == \* "Unable to complete style evaluation"
    <<"U","n","a","b","l","e"," ","t","o"," ","c","o","m","p","l","e","t","e"," ","s","t","y","l","e"," ","e","v","a","l","u","a","t","i","o","n">>
ErrorSuggestions ==
    << Str(<<"P","l","e","a","s","e"," ","t","r","y"," ","a","g","a","i","n"," ","i","n"," ","a"," ","m","o","m","e","n","t">>),
       Str(<<"C","o","n","s","i","d","e","r"," ","b","r","e","a","k","i","n","g"," ","c","o","n","t","e","n","t"," ","i","n","t","o"," ","s","m","a","l","l","e","r"," ","s","e","c","t","i","o","n","s">>) >>

GenerationFailed == \* "Content generation failed. Please try again."
    <<"C","o","n","t","e","n","t"," ","g","e","n","e","r","a","t","i","o","n"," ","f","a","i","l","e","d","."," ","P","l","e","a","s","e"," ","t","r","y"," ","a","g","a","i","n",".">>

NoStyleGuide == \* "No style guide loaded."
    <<"N","o"," ","s","t","y","l","e"," ","g","u","i","d","e"," ","l","o","a","d","e","d",".">>

FallbackLen == 100
ContextLen == 300

AnalysisResult(overall, style, suggestions) ==
    Obj(<< [k |-> OverallAssessment, v |-> Str(overall)],
           [k |-> StyleEvaluation, v |-> Str(style)],
           [k |-> Suggestions, v |-> Arr(suggestions)] >>)

\* "\n".join([f"{k}: {v[:300]}..." for k, v in self.style_guide.items()])
style_guide_context(sg) ==
    IF sg = <<>> THEN NoStyleGuide
    ELSE join([i \in 1..Len(sg) |->
                  sg[i].k \o <<":", " ">> \o Take(sg[i].v, ContextLen) \o Ellipsis], NL)

\* The parts the two prompts embed in their fixed wording: the text and the
\* style-guide context.  content_type only selects a phrase of that wording.
analysis_prompt(sg, content) ==
    [text |-> content, style_guidelines |-> style_guide_context(sg)]
generation_prompt(sg, user_prompt) ==
    [content_prompt |-> user_prompt, guidelines |-> style_guide_context(sg)]

\* a fallback that quotes the response instead of the analysed content
analysis_fallback_response(content, response_text) ==
    AnalysisResult(FormattingIssues,
                   ContentAnalyzed \o Take(response_text, FallbackLen) \o Ellipsis,
                   FallbackSuggestions)

\* the "Fallback response" of analyze_text
analysis_fallback(content, response_text) ==
    AnalysisResult(FormattingIssues,
                   ContentAnalyzed \o Take(content, FallbackLen) \o Ellipsis,
                   FallbackSuggestions)

\* an error result that leaves the message out
analysis_error_silent(msg) ==
    AnalysisResult(AnalysisError, UnableToComplete, ErrorSuggestions)

\* the result of the "except Exception as e" handler of analyze_text
analysis_error(msg) ==
    AnalysisResult(AnalysisError \o msg, UnableToComplete, ErrorSuggestions)

\* An outcome of client.messages.create is [raises, msg, payload]: it raises
\* an exception with str(e) = msg, or it returns a response whose content is
\* payload.  The prompt is an argument of that call only.
analyze_text(sg, content, o) ==
    IF o.raises
    THEN [raised |-> FALSE, tier |-> "error", value |-> analysis_error(o.msg)]
    ELSE LET response_text == o.payload.repr
             direct == json_loads(response_text)
             json_match_ == json_match(response_text)
             second == json_loads(json_match_.group)
         IN  IF direct.ok
             THEN [raised |-> FALSE, tier |-> "direct", value |-> direct.val]
             ELSE IF json_match_.found /\ second.ok
             THEN [raised |-> FALSE, tier |-> "regex", value |-> second.val]
             ELSE [raised |-> FALSE, tier |-> "fallback",
                   value |-> analysis_fallback(content, response_text)]

generate_text(sg, user_prompt, o) ==
    IF o.raises \/ clean_text_raises(o.payload)
    THEN [raised |-> FALSE, tier |-> "error", value |-> Str(GenerationFailed)]
    ELSE [raised |-> FALSE, tier |-> "clean", value |-> Str(clean_text(o.payload))]

\* A document is [valid, pages]: PyPDF2.PdfReader raises on an invalid one.
extract_pdf_text_raises(doc) == ~ doc.valid
extract_pdf_text(doc) ==
    Flatten([i \in 1..Len(doc.pages) |-> doc.pages[i] \o <<NL>>])

\* a load that clears the stored guide when extraction raises
load_style_guide_clear(sg, doc) ==
    IF extract_pdf_text_raises(doc)
    THEN [raised |-> TRUE, guide |-> <<>>]
    ELSE [raised |-> FALSE, guide |-> process_style_guide(extract_pdf_text(doc))]

RECURSIVE update(_, _)
update(d, e) == IF e = <<>> THEN d ELSE update(DictSet(d, e[1].k, e[1].v), Tail(e))

\* a load that merges the new sections into the stored guide
load_style_guide_merge(sg, doc) ==
    IF extract_pdf_text_raises(doc)
    THEN [raised |-> TRUE, guide |-> sg]
    ELSE [raised |-> FALSE,
          guide |-> update(sg, process_style_guide(extract_pdf_text(doc)))]

load_style_guide(sg, doc) ==
    IF extract_pdf_text_raises(doc)
    THEN [raised |-> TRUE, guide |-> sg]
    ELSE [raised |-> FALSE, guide |-> process_style_guide(extract_pdf_text(doc))]

-----------------------------------------------------------------------------
(* A session: any sequence of load_style_guide, analyze_text and            *)
(* generate_text calls on one TextAnalyzer, one call at a time.             *)

MaxPages == 1

\* "a\nINTRO\nb", "Tone:\nc"
PagePool == { <<"a",NL,"I","N","T","R","O",NL,"b">>, <<"T","o","n","e",":",NL,"c">> }

Documents ==
    { [valid |-> FALSE, pages |-> <<>>] }
    \cup UNION { { [valid |-> TRUE, pages |-> ps] : ps \in [1..n -> PagePool] } : n \in 0..MaxPages }

\* a content of 105 characters, longer than the 100 the fallback quotes
LongContent == [i \in 1..105 |-> IF i <= 100 THEN "k" ELSE "z"]

Contents == { <<"h","i">>, LongContent }

Raise(msg) == [raises |-> TRUE, msg |-> msg, payload |-> [kind |-> "none", repr |-> <<>>]]
Return(kind, repr) == [raises |-> FALSE, msg |-> <<>>, payload |-> [kind |-> kind, repr |-> repr]]

Outcomes ==
    { Raise(<<"4","0","1">>), Raise(<<"o","v","e","r","l","o","a","d","e","d">>),
      \* {"a":1}
      Return("str", <<"{","\"","a","\"",":","1","}">>),
      \* x{"a":1}y
      Return("str", <<"x","{","\"","a","\"",":","1","}","y">>),
      \* no json here
      Return("str", <<"n","o"," ","j","s","o","n"," ","h","e","r","e">>),
      \* {"a":1} {"b":2}
      Return("str", <<"{","\"","a","\"",":","1","}"," ","{","\"","b","\"",":","2","}">>),
      \* []
      Return("list", <<"[","]">>),
      \* 1
      Return("other", <<"1">>),
      \* }{
      Return("str", <<"}","{">>),
      \* {a}
      Return("str", <<"{","a","}">>),
      \* {"overall_assessment":"ok","style_evaluation":"fine","suggestions":["x"]}
      Return("str", <<"{","\"","o","v","e","r","a","l","l","_","a","s","s","e","s","s","m","e","n","t","\"",":","\"","o","k","\"",",","\"","s","t","y","l","e","_","e","v","a","l","u","a","t","i","o","n","\"",":","\"","f","i","n","e","\"",",","\"","s","u","g","g","e","s","t","i","o","n","s","\"",":","[","\"","x","\"","]","}">>),
      \* [TextBlock(text='{"a":1}', type='text')]
      Return("list", <<"[","T","e","x","t","B","l","o","c","k","(","t","e","x","t","=","'","{","\"","a","\"",":","1","}","'",","," ","t","y","p","e","=","'","t","e","x","t","'",")","]">>),
      \* "{}"
      Return("str", <<"\"","{","}","\"">>),
      \* None
      Return("other", <<"N","o","n","e">>),
      \* [TextBlock(text=" 'hi' ", type="text")]
      Return("list", <<"[","T","e","x","t","B","l","o","c","k","(","t","e","x","t","=","\""," ","'","h","i","'"," ","\"",","," ","t","y","p","e","=","\"","t","e","x","t","\"",")","]">>) }

Init ==
    /\ style_guide = <<>>
    /\ op = "none"
    /\ arg = <<>>
    /\ prompt = "none"
    /\ outcome = "none"
    /\ result = "none"
    /\ raised = FALSE
    /\ tier = "none"
    /\ prev_guide = <<>>
    /\ loads = 0
    /\ text = <<>> /\ sections = <<>> /\ pc = "session"
    /\ x = <<>> /\ once = <<>> /\ twice = <<>>

LoadStyleGuide ==
    \E doc \in Documents :
        LET r == load_style_guide(style_guide, doc)
        IN  /\ op' = "load"
            /\ outcome' = doc
            /\ arg' = IF r.raised THEN <<>> ELSE extract_pdf_text(doc)
            /\ prompt' = "none"
            /\ style_guide' = r.guide
            /\ result' = IF r.raised THEN "none" ELSE r.guide
            /\ raised' = r.raised
            /\ tier' = "none"
            /\ prev_guide' = IF r.raised THEN prev_guide ELSE style_guide
            /\ loads' = IF r.raised \/ loads = 2 THEN loads ELSE loads + 1
            /\ UNCHANGED <<sectVars, cleanVars, pc>>

Analyze ==
    \E content \in Contents, o \in Outcomes :
        LET r == analyze_text(style_guide, content, o)
        IN  /\ op' = "analyze"
            /\ arg' = content
            /\ prompt' = analysis_prompt(style_guide, content)
            /\ outcome' = o
            /\ result' = r.value
            /\ raised' = r.raised
            /\ tier' = r.tier
            /\ UNCHANGED <<style_guide, prev_guide, loads, sectVars, cleanVars, pc>>

Generate ==
    \E user_prompt \in Contents, o \in Outcomes :
        LET r == generate_text(style_guide, user_prompt, o)
        IN  /\ op' = "generate"
            /\ arg' = user_prompt
            /\ prompt' = generation_prompt(style_guide, user_prompt)
            /\ outcome' = o
            /\ result' = r.value
            /\ raised' = r.raised
            /\ tier' = r.tier
            /\ UNCHANGED <<style_guide, prev_guide, loads, sectVars, cleanVars, pc>>

Next == LoadStyleGuide \/ Analyze \/ Generate

Spec == Init /\ [][Next]_vars

-----------------------------------------------------------------------------
(* Properties of the session                                               *)

is_str(v) == v.t = "str"

\* a record with the three fields of an analysis result, of the right types
IsAnalysisResult(v) ==
    /\ v.t = "obj"
    /\ {OverallAssessment, StyleEvaluation, Suggestions} \subseteq Keys(v.v)
    /\ is_str(Get(v.v, OverallAssessment))
    /\ is_str(Get(v.v, StyleEvaluation))
    /\ Get(v.v, Suggestions).t = "arr"
    /\ \A i \in 1..Len(Get(v.v, Suggestions).v) : is_str(Get(v.v, Suggestions).v[i])

\* C2: whatever the remote call does, analyze_text returns, without raising,
\* a record with the three fields, and generate_text returns a string.
C2_TotalAndShaped ==
    /\ op = "analyze" => (~ raised /\ IsAnalysisResult(result))
    /\ op = "generate" => (~ raised /\ is_str(result))

\* C4: when the remote call raises, analyze_text returns the error result
\* whose overall_assessment contains the message, generate_text returns the
\* fixed failure string, and neither raises.
C4_RemoteFailureDegrades ==
    /\ (op = "analyze" /\ outcome.raises) =>
          /\ ~ raised
          /\ IsAnalysisResult(result)
          /\ IsSubstring(outcome.msg, Get(result.v, OverallAssessment).v)
          /\ Get(result.v, StyleEvaluation) = Str(UnableToComplete)
          /\ Get(result.v, Suggestions) = Arr(ErrorSuggestions)
    /\ (op = "generate" /\ outcome.raises) =>
          /\ ~ raised
          /\ result = Str(GenerationFailed)

C4_Witness ==
    /\ op = "analyze"
    /\ outcome.raises
    /\ outcome.msg # <<>>
    /\ ~ raised
    /\ IsSubstring(outcome.msg, Get(result.v, OverallAssessment).v)

\* the part of s from its first '{' to its last '}', if they are in that order
first_open(s) == CHOOSE i \in 1..Len(s) : s[i] = "{" /\ \A j \in 1..(i - 1) : s[j] # "{"
last_close(s) == CHOOSE i \in 1..Len(s) : s[i] = "}" /\ \A j \in (i + 1)..Len(s) : s[j] # "}"
has_span(s) ==
    /\ \E i \in 1..Len(s) : s[i] = "{"
    /\ \E i \in 1..Len(s) : s[i] = "}"
    /\ first_open(s) < last_close(s)
span(s) == SubSeq(s, first_open(s), last_close(s))
span_parses(s) == has_span(s) /\ json_loads(span(s)).ok

unparseable(s) == ~ json_loads(s).ok /\ ~ span_parses(s)

first_100(s) == [i \in 1..(IF Len(s) > 100 THEN 100 ELSE Len(s)) |-> s[i]]

\* C5: when the call succeeds and neither the response text nor its first-'{'
\* to last-'}' span parses, analyze_text returns the fallback result, whose
\* style_evaluation quotes the first 100 characters of the content argument.
C5_FallbackQuotesContent ==
    (op = "analyze" /\ ~ outcome.raises /\ unparseable(outcome.payload.repr)) =>
        result = AnalysisResult(FormattingIssues,
                                ContentAnalyzed \o first_100(arg) \o <<".", ".", ".">>,
                                FallbackSuggestions)

C5_Witness ==
    /\ op = "analyze"
    /\ ~ outcome.raises
    /\ unparseable(outcome.payload.repr)
    /\ ~ has_span(outcome.payload.repr)
    /\ Len(arg) > 100
    /\ Len(Get(result.v, StyleEvaluation).v) = Len(ContentAnalyzed) + 103

\* C6: after a second successful load the stored guide is the sectionized
\* text of the second document alone; sections only the first document had
\* are gone.
C6_ReloadReplaces ==
    (op = "load" /\ ~ raised /\ loads = 2) =>
        /\ style_guide = process_style_guide(arg)
        /\ \A k \in Keys(prev_guide) \ Keys(process_style_guide(arg)) :
              k \notin Keys(style_guide)

C6_Witness ==
    /\ op = "load" /\ ~ raised /\ loads = 2
    /\ \E k \in Keys(prev_guide) : k \notin Keys(style_guide)
    /\ \E k \in Keys(style_guide) : k \notin Keys(prev_guide)

\* C7: the stored guide changes only in a load_style_guide call that returns.
C7_OnlyLoadWrites ==
    [][style_guide' # style_guide => (op' = "load" /\ ~ raised')]_vars

C7_Witness ==
    /\ op = "load"
    /\ raised
    /\ loads >= 1
    /\ style_guide # <<>>

\* some brace-delimited part of s parses
some_part_parses(s) ==
    \E a, b \in 1..Len(s) :
        a < b /\ s[a] = "{" /\ s[b] = "}" /\ json_loads(SubSeq(s, a, b)).ok

\* C10: the whole response is tried first and returned if it parses; else
\* only the span from the first '{' to the last '}' is tried; else the
\* result is the fallback, also when a shorter part would parse.
C10_TiersInOrder ==
    (op = "analyze" /\ ~ outcome.raises) =>
        LET s == outcome.payload.repr
        IN  /\ json_loads(s).ok => (tier = "direct" /\ result = json_loads(s).val)
            /\ (~ json_loads(s).ok /\ span_parses(s)) =>
                  (tier = "regex" /\ result = json_loads(span(s)).val)
            /\ unparseable(s) =>
                  (tier = "fallback" /\ Get(result.v, OverallAssessment) = Str(FormattingIssues))

C10_Witness ==
    /\ op = "analyze"
    /\ ~ outcome.raises
    /\ unparseable(outcome.payload.repr)
    /\ some_part_parses(outcome.payload.repr)
    /\ tier = "fallback"

====
